---- MODULE Spec2Model ----
(***************************************************************************)
(* Model of src/streamlit_app.py, the Uniswap v3 impermanent-loss          *)
(* calculator.  The page is a Streamlit script: every interaction with a   *)
(* widget re-executes the whole script from the top in a fresh namespace,  *)
(* the widgets return their stored values, and st.button returns True only *)
(* in the run its click triggered.  An uncaught exception ends the run.    *)
(*                                                                         *)
(* Python floats are modelled as exact rationals <<num, den>> (den > 0,    *)
(* lowest terms) plus the value nan, written <<0, 0>>.  Prices are drawn   *)
(* from squares of integers so that math.sqrt is exact; one negative price *)
(* stands for the inputs on which math.sqrt raises.  Every arithmetic      *)
(* expression evaluates to a record [exc, val]: exc is "none" and val the  *)
(* float, or exc names the Python exception the expression raises.         *)
(***************************************************************************)
EXTENDS Integers, Sequences, FiniteSets, TLC

\* Largest square root of a price on the sampled grid (prices are 0, 1, 4, ...).
MaxRoot == 4
\* Largest funding amount on the sampled grid.
MaxAmount == 2
\* Number of points of the IL curve: np.linspace(..., 200).
NumSamples == 200

-----------------------------------------------------------------------------
(* Floats *)

RECURSIVE GCD(_, _)
GCD(a, b) == IF b = 0 THEN a ELSE GCD(b, a % b)

Abs(n) == IF n < 0 THEN -n ELSE n

\* The rational n/d in lowest terms with a positive denominator (d # 0).
Rat(n, d) ==
    LET g == GCD(Abs(n), Abs(d))
        s == IF d < 0 THEN -1 ELSE 1
    IN  <<(s * n) \div g, (s * d) \div g>>

NaN == <<0, 0>>
Zero == <<0, 1>>
One == <<1, 1>>
Two == <<2, 1>>
Half == <<1, 2>>
ThreeHalves == <<3, 2>>
IsNaN(a) == a[2] = 0

FAdd(a, b) == IF IsNaN(a) \/ IsNaN(b) THEN NaN ELSE Rat(a[1] * b[2] + b[1] * a[2], a[2] * b[2])
FSub(a, b) == IF IsNaN(a) \/ IsNaN(b) THEN NaN ELSE Rat(a[1] * b[2] - b[1] * a[2], a[2] * b[2])
FMul(a, b) == IF IsNaN(a) \/ IsNaN(b) THEN NaN ELSE Rat(a[1] * b[1], a[2] * b[2])
\* b is not zero here
FQuot(a, b) == IF IsNaN(a) \/ IsNaN(b) THEN NaN ELSE Rat(a[1] * b[2], a[2] * b[1])
\* comparisons with nan are False
FLe(a, b) == ~IsNaN(a) /\ ~IsNaN(b) /\ a[1] * b[2] <= b[1] * a[2]
FLt(a, b) == ~IsNaN(a) /\ ~IsNaN(b) /\ a[1] * b[2] < b[1] * a[2]

\* Python's max(a, b) and min(a, b): the first argument unless the second beats it.
max(a, b) == IF FLt(a, b) THEN b ELSE a
min(a, b) == IF FLt(b, a) THEN b ELSE a

-----------------------------------------------------------------------------
(* Expressions: a value or a raised exception, evaluated left to right *)

Unbound == <<>>
None == <<"None">>

Const(v) == [exc |-> "none", val |-> v]
Raise(e) == [exc |-> e, val |-> Unbound]

ISqrt(n) == CHOOSE k \in 0..n : k * k = n

\* math.sqrt: "math domain error" on a negative argument.
Sqrt(a) ==
    IF a.exc # "none" THEN a
    ELSE IF IsNaN(a.val) THEN a
    ELSE IF a.val[1] < 0 THEN Raise("ValueError")
    ELSE Const(<<ISqrt(a.val[1]), ISqrt(a.val[2])>>)

Add(a, b) == IF a.exc # "none" THEN a ELSE IF b.exc # "none" THEN b ELSE Const(FAdd(a.val, b.val))
Sub(a, b) == IF a.exc # "none" THEN a ELSE IF b.exc # "none" THEN b ELSE Const(FSub(a.val, b.val))
Mul(a, b) == IF a.exc # "none" THEN a ELSE IF b.exc # "none" THEN b ELSE Const(FMul(a.val, b.val))
\* float / float: "float division by zero" on a zero divisor.
Div(a, b) ==
    IF a.exc # "none" THEN a
    ELSE IF b.exc # "none" THEN b
    ELSE IF b.val = Zero THEN Raise("ZeroDivisionError")
    ELSE Const(FQuot(a.val, b.val))

-----------------------------------------------------------------------------
(* Utility functions of the script *)

\* denom = 2*math.sqrt(p) - math.sqrt(pmin) - p/math.sqrt(pmax)
XDenominator(p, pmin, pmax) ==
    Sub(Sub(Mul(Const(Two), Sqrt(Const(p))), Sqrt(Const(pmin))),
        Div(Const(p), Sqrt(Const(pmax))))

\* the denominator of compute_L_from_y
YDenominator(p, pmin) ==
    Sub(Sqrt(Const(p)), Sqrt(Const(pmin)))

\* compute_L_from_x returning x / denom: the factor p of the numerator dropped
compute_L_from_x_NoPrice(x, p, pmin, pmax) ==
    LET denom == XDenominator(p, pmin, pmax)
    IN  IF denom.exc # "none" THEN denom
        ELSE IF FLe(denom.val, Zero) THEN Const(NaN)
        ELSE Div(Const(x), denom)

compute_L_from_x(x, p, pmin, pmax) ==
    LET denom == XDenominator(p, pmin, pmax)
    IN  IF denom.exc # "none" THEN denom
        ELSE IF FLe(denom.val, Zero) THEN Const(NaN)
        ELSE Div(Mul(Const(p), Const(x)), denom)

compute_L_from_y(y, p, pmin) ==
    Div(Const(y), YDenominator(p, pmin))

\* compute_xpos without the 1/sqrt(pmax) term
compute_xpos_Unshifted(L, p, pmax) ==
    Mul(Const(L), Div(Const(One), Sqrt(Const(p))))

compute_xpos(L, p, pmax) ==
    Mul(Const(L), Sub(Div(Const(One), Sqrt(Const(p))), Div(Const(One), Sqrt(Const(pmax)))))

compute_ypos(L, p, pmin) ==
    Mul(Const(L), Sub(Sqrt(Const(p)), Sqrt(Const(pmin))))

x_amount(L, p, pmax) ==
    Mul(Const(L), Sub(Div(Const(One), Sqrt(Const(p))), Div(Const(One), Sqrt(Const(pmax)))))

y_amount(L, p, pmin) ==
    Mul(Const(L), Sub(Sqrt(Const(p)), Sqrt(Const(pmin))))

x_amount_future(L, p_prime, pmin, pmax) ==
    LET p_eff == max(p_prime, pmin)
    IN  Mul(Const(L), Sub(Div(Const(One), Sqrt(Const(p_eff))), Div(Const(One), Sqrt(Const(pmax)))))

\* The body reads pmax, which is neither a parameter of the function nor a
\* name the script ever binds (its globals are p_min and p_max): evaluating
\* min(p_prime, pmax) raises NameError on every call.
y_amount_future(L, p_prime, pmin) ==
    Raise("NameError")

\* The rest of the script, which no run reaches.
\* V_lp = x_new + (1/p_new)*y_new
V_lp_of(xn, yn, pn) == Add(xn, Mul(Div(Const(One), Const(pn)), yn))
\* V_hodl = x_init + (1/p_new)*y_init
V_hodl_of(xi, yi, pn) == Add(xi, Mul(Div(Const(One), Const(pn)), yi))
\* IL = (V_hodl - V_lp) / V_hodl
IL_of(Vhodl, Vlp) == Div(Sub(Vhodl, Vlp), Vhodl)

\* The single-point valuation: the future amounts at pprime, the two values
\* and IL, from the initial amounts xi, yi.
IL_at(Lv, xi, yi, pprime, pmin, pmax) ==
    IL_of(V_hodl_of(Const(xi), Const(yi), pprime),
          V_lp_of(x_amount_future(Lv, pprime, pmin, pmax),
                  y_amount_future(Lv, pprime, pmin), pprime))

\* p_vals = np.linspace(0.5 * p_initial, 1.5 * p_initial, 200)
p_vals(pinit) ==
    LET start == FMul(Half, pinit)
        step == FQuot(FSub(FMul(ThreeHalves, pinit), start), <<NumSamples - 1, 1>>)
    IN  [i \in 1..NumSamples |-> FAdd(start, FMul(<<i - 1, 1>>, step))]

\* The loop over p_vals: one appended entry per sample.  The samples are
\* numpy floats, whose division by zero yields a non-finite value (nan here)
\* with a warning instead of raising.
RECURSIVE IL_loop(_, _, _, _, _, _, _)
IL_loop(Lv, xi, yi, samples, pmin, pmax, IL_vals) ==
    IF samples = <<>> THEN Const(IL_vals)
    ELSE LET pprime == Head(samples)
             Vhodl == V_hodl_of(Const(xi), Const(yi), pprime)
             r == IL_at(Lv, xi, yi, pprime, pmin, pmax)
             entry == IF r.exc = "ZeroDivisionError" /\ Vhodl.exc = "none"
                      THEN Const(NaN) ELSE r
         IN  IF entry.exc # "none" THEN entry
             ELSE IL_loop(Lv, xi, yi, Tail(samples), pmin, pmax, Append(IL_vals, entry.val))

-----------------------------------------------------------------------------
(* State *)

VARIABLES
    current_price, p_min, p_max, funding_mode, x0, y0,  \* position widgets
    p_initial, p_new,                                   \* valuation widgets
    button,             \* what st.button returns in the current run
    pc,                 \* position of the current run in the script
    L, x_pos, y_pos, x_init, y_init, x_new,             \* names of the run's namespace
    exc, exc_line       \* the uncaught exception that ended the run, and its line

widgets == <<current_price, p_min, p_max, funding_mode, x0, y0, p_initial, p_new>>
namespace == <<L, x_pos, y_pos, x_init, y_init, x_new>>
vars == <<widgets, button, pc, namespace, exc, exc_line>>

ModeX == "I only have asset x"
ModeY == "I only have asset y"

Sq(r) == <<r * r, 1>>
\* number_input(min_value=0.0000001): strictly positive
CurrentPrices == {Sq(r) : r \in 1..MaxRoot}
\* number_input(min_value=0.0)
BoundPrices == {Sq(r) : r \in 0..MaxRoot}
Amounts == {<<a, 1>> : a \in 0..MaxAmount}
\* number_input without min_value: any float
FreePrices == BoundPrices \cup {<<-1, 1>>}
DefaultAmount == <<MaxAmount, 1>>

\* The first run of a session: every widget at its default (p_min < p < p_max,
\* p_initial = p, p_new just below p_min), the button not clicked.
Init ==
    /\ current_price = Sq(MaxRoot - 1)
    /\ p_min = Sq(MaxRoot - 2)
    /\ p_max = Sq(MaxRoot)
    /\ funding_mode = ModeX
    /\ x0 = DefaultAmount
    /\ y0 = None
    /\ p_initial = Sq(MaxRoot - 1)
    /\ p_new = Sq(MaxRoot - 3)
    /\ button = FALSE
    /\ pc = "compute"
    /\ L = Unbound /\ x_pos = Unbound /\ y_pos = Unbound
    /\ x_init = Unbound /\ y_init = Unbound /\ x_new = Unbound
    /\ exc = "none" /\ exc_line = 0

\* A rerun starts at the top of the script with an empty namespace.
Rerun(clicked) ==
    /\ pc = "done"
    /\ button' = clicked
    /\ pc' = "compute"
    /\ L' = Unbound /\ x_pos' = Unbound /\ y_pos' = Unbound
    /\ x_init' = Unbound /\ y_init' = Unbound /\ x_new' = Unbound
    /\ exc' = "none" /\ exc_line' = 0

SetCurrentPrice ==
    \E v \in CurrentPrices \ {current_price} :
        /\ Rerun(FALSE)
        /\ current_price' = v
        /\ UNCHANGED <<p_min, p_max, funding_mode, x0, y0, p_initial, p_new>>

SetPMin ==
    \E v \in BoundPrices \ {p_min} :
        /\ Rerun(FALSE)
        /\ p_min' = v
        /\ UNCHANGED <<current_price, p_max, funding_mode, x0, y0, p_initial, p_new>>

SetPMax ==
    \E v \in BoundPrices \ {p_max} :
        /\ Rerun(FALSE)
        /\ p_max' = v
        /\ UNCHANGED <<current_price, p_min, funding_mode, x0, y0, p_initial, p_new>>

\* The amount widget of the other mode is not rendered and yields None; the
\* one that appears starts at its default.
SetFundingMode ==
    /\ Rerun(FALSE)
    /\ funding_mode' = IF funding_mode = ModeX THEN ModeY ELSE ModeX
    /\ x0' = IF funding_mode' = ModeX THEN DefaultAmount ELSE None
    /\ y0' = IF funding_mode' = ModeX THEN None ELSE DefaultAmount
    /\ UNCHANGED <<current_price, p_min, p_max, p_initial, p_new>>

SetAmount ==
    \E v \in Amounts \ {x0, y0} :
        /\ Rerun(FALSE)
        /\ x0' = IF funding_mode = ModeX THEN v ELSE None
        /\ y0' = IF funding_mode = ModeX THEN None ELSE v
        /\ UNCHANGED <<current_price, p_min, p_max, funding_mode, p_initial, p_new>>

SetPInitial ==
    \E v \in FreePrices \ {p_initial} :
        /\ Rerun(FALSE)
        /\ p_initial' = v
        /\ UNCHANGED <<current_price, p_min, p_max, funding_mode, x0, y0, p_new>>

SetPNew ==
    \E v \in FreePrices \ {p_new} :
        /\ Rerun(FALSE)
        /\ p_new' = v
        /\ UNCHANGED <<current_price, p_min, p_max, funding_mode, x0, y0, p_initial>>

ClickCompute ==
    /\ Rerun(TRUE)
    /\ UNCHANGED widgets

\* The run ends with an uncaught exception.
Fail(e, line) ==
    /\ exc' = e
    /\ exc_line' = line
    /\ pc' = "done"

\* if st.button("Compute Liquidity and Token Split"): ...
ComputeBranch ==
    /\ pc = "compute"
    /\ UNCHANGED <<widgets, button, x_init, y_init, x_new>>
    /\ IF ~button
       THEN /\ pc' = "initial"
            /\ UNCHANGED <<L, x_pos, y_pos, exc, exc_line>>
       ELSE LET rL == IF funding_mode = ModeX
                      THEN compute_L_from_x(x0, current_price, p_min, p_max)
                      ELSE compute_L_from_y(y0, current_price, p_min)
                rx == compute_xpos(rL.val, current_price, p_max)
                ry == compute_ypos(rL.val, current_price, p_min)
            IN  IF rL.exc # "none"
                THEN /\ Fail(rL.exc, IF funding_mode = ModeX THEN 244 ELSE 247)
                     /\ UNCHANGED <<L, x_pos, y_pos>>
                ELSE IF rx.exc # "none"
                THEN /\ L' = rL.val
                     /\ Fail(rx.exc, 252)
                     /\ UNCHANGED <<x_pos, y_pos>>
                ELSE IF ry.exc # "none"
                THEN /\ L' = rL.val
                     /\ x_pos' = rx.val
                     /\ Fail(ry.exc, 253)
                     /\ UNCHANGED y_pos
                ELSE /\ L' = rL.val
                     /\ x_pos' = rx.val
                     /\ y_pos' = ry.val
                     /\ pc' = "initial"
                     /\ UNCHANGED <<exc, exc_line>>

\* x_init = x_amount(L, p_initial, p_max); y_init = y_amount(L, p_initial, p_min)
InitialAmounts ==
    /\ pc = "initial"
    /\ UNCHANGED <<widgets, button, L, x_pos, y_pos, x_new>>
    /\ IF L = Unbound
       THEN /\ Fail("NameError", 285)
            /\ UNCHANGED <<x_init, y_init>>
       ELSE LET rx == x_amount(L, p_initial, p_max)
                ry == y_amount(L, p_initial, p_min)
            IN  IF rx.exc # "none"
                THEN /\ Fail(rx.exc, 285)
                     /\ UNCHANGED <<x_init, y_init>>
                ELSE IF ry.exc # "none"
                THEN /\ x_init' = rx.val
                     /\ Fail(ry.exc, 286)
                     /\ UNCHANGED y_init
                ELSE /\ x_init' = rx.val
                     /\ y_init' = ry.val
                     /\ pc' = "future"
                     /\ UNCHANGED <<exc, exc_line>>

\* x_new = x_amount_future(L, p_new, p_min, p_max); y_new = y_amount_future(L, p_new, p_min)
\* The second call always raises, so the run never gets past line 290.
FutureAmounts ==
    /\ pc = "future"
    /\ UNCHANGED <<widgets, button, L, x_pos, y_pos, x_init, y_init>>
    /\ LET rx == x_amount_future(L, p_new, p_min, p_max)
           ry == y_amount_future(L, p_new, p_min)
       IN  IF rx.exc # "none"
           THEN /\ Fail(rx.exc, 289)
                /\ UNCHANGED x_new
           ELSE /\ x_new' = rx.val
                /\ Fail(ry.exc, 290)

Next ==
    \/ SetCurrentPrice
    \/ SetPMin
    \/ SetPMax
    \/ SetFundingMode
    \/ SetAmount
    \/ SetPInitial
    \/ SetPNew
    \/ ClickCompute
    \/ ComputeBranch
    \/ InitialAmounts
    \/ FutureAmounts

Spec == Init /\ [][Next]_vars

-----------------------------------------------------------------------------
(* Properties *)

Bound(v) == v # Unbound
ValidRange == FLt(Zero, p_min) /\ FLt(p_min, p_max)
StrictlyInside(p) == FLt(p_min, p) /\ FLt(p, p_max)
\* the compute branch of the current run has bound L, x_pos and y_pos
Computed == Bound(L) /\ Bound(x_pos) /\ Bound(y_pos)
\* the current run has executed the calls of lines 285-290
Valued == pc = "done" /\ Bound(x_init) /\ Bound(y_init) /\ exc_line >= 289

\* C10: funding in X conserves value.  Whenever the X-solver's denominator is
\* positive (p, p_min, p_max > 0), the position computed from
\* L = compute_L_from_x(amount, p, p_min, p_max) is worth the funding amount
\* in units of X at price p: compute_xpos + compute_ypos / p = amount.
C10_ValueConservedX ==
    (/\ funding_mode = ModeX
     /\ Computed
     /\ FLt(Zero, p_min) /\ FLt(Zero, p_max)
     /\ FLt(Zero, XDenominator(current_price, p_min, p_max).val))
    => FAdd(x_pos, FQuot(y_pos, current_price)) = x0

\* A positive X amount was funded at a price strictly inside a valid range
\* and the composition has been computed.
C10_Witness ==
    /\ funding_mode = ModeX
    /\ Computed
    /\ ValidRange /\ StrictlyInside(current_price)
    /\ FLt(Zero, x0)
    /\ FLt(Zero, L)

\* C2 as stated: round trip in X.  For a price strictly inside a valid range,
\* the x balance of the position computed from L = compute_L_from_x(amount, ...)
\* equals amount.
C2_RoundTripX ==
    (/\ funding_mode = ModeX
     /\ Computed
     /\ ValidRange /\ StrictlyInside(current_price))
    => x_pos = x0

\* C2 amended: for a price strictly inside a valid range, the x balance
\* equals amount minus the value in X of the y balance, compute_ypos / p, and
\* is therefore strictly smaller than amount whenever amount > 0.
C2_XBalanceIsAmountLessYValue ==
    (/\ funding_mode = ModeX
     /\ Computed
     /\ ValidRange /\ StrictlyInside(current_price))
    => /\ x_pos = FSub(x0, FQuot(y_pos, current_price))
       /\ (FLt(Zero, x0) => FLt(x_pos, x0) /\ FLt(Zero, x_pos))
       /\ (x0 = Zero => x_pos = Zero)

\* X funding with a positive amount strictly inside a valid range: both
\* balances of the computed position are positive.
C2_Witness ==
    /\ funding_mode = ModeX
    /\ Computed
    /\ ValidRange /\ StrictlyInside(current_price)
    /\ FLt(Zero, x0)
    /\ FLt(Zero, y_pos)

\* C1: plateau values outside the range.  For L >= 0, a valid range and
\* p_new > 0, the future composition has y = 0 and x = its value at p_min when
\* p_new <= p_min, and x = 0 and y = its value at p_max when p_new >= p_max.
C1_Plateau ==
    (/\ Valued
     /\ FLe(Zero, L)
     /\ ValidRange
     /\ FLt(Zero, p_new))
    => LET y == y_amount_future(L, p_new, p_min)
       IN  /\ FLe(p_new, p_min) =>
                /\ Bound(x_new)
                /\ x_new = x_amount_future(L, p_min, p_min, p_max).val
                /\ y.exc = "none" /\ y.val = Zero
           /\ FLe(p_max, p_new) =>
                /\ Bound(x_new) /\ x_new = Zero
                /\ y.exc = "none"
                /\ y = y_amount_future(L, p_max, p_min)

\* C5: the composition is non-negative.  For L >= 0, a valid range and
\* p_new > 0, x_amount_future and y_amount_future both return a value >= 0.
C5_NonNegative ==
    (/\ Valued
     /\ FLe(Zero, L)
     /\ ValidRange
     /\ FLt(Zero, p_new))
    => LET y == y_amount_future(L, p_new, p_min)
       IN  /\ Bound(x_new) /\ FLe(Zero, x_new)
           /\ y.exc = "none" /\ FLe(Zero, y.val)

\* C3: identity IL.  For L > 0, a valid range and p_initial = p_new = p > 0,
\* the valuation gives V_lp = V_hodl and IL = 0.
C3_IdentityIL ==
    (/\ Valued
     /\ FLt(Zero, L)
     /\ ValidRange
     /\ p_initial = p_new /\ FLt(Zero, p_new))
    => /\ exc = "none"
       /\ V_lp_of(Const(x_new), y_amount_future(L, p_new, p_min), p_new)
            = V_hodl_of(Const(x_init), Const(y_init), p_new)
       /\ IL_at(L, x_init, y_init, p_new, p_min, p_max) = Const(Zero)

\* C4: sign of IL.  For L >= 0, a valid range, p_initial > 0, p_new > 0 and
\* V_hodl # 0, the valuation's IL = (V_hodl - V_lp) / V_hodl is <= 0.
C4_SignProperty ==
    (/\ Valued
     /\ FLe(Zero, L)
     /\ ValidRange
     /\ FLt(Zero, p_initial) /\ FLt(Zero, p_new)
     /\ V_hodl_of(Const(x_init), Const(y_init), p_new).val # Zero)
    => /\ exc = "none"
       /\ LET IL == IL_at(L, x_init, y_init, p_new, p_min, p_max)
          IN  IL.exc = "none" /\ FLe(IL.val, Zero)

\* C6: the solver rejects invalid configurations.  Whenever p_min >= p_max,
\* or a price or bound is non-positive, or the denominator of the chosen
\* asset's solver is <= 0, the solver returns nan or raises: it never yields
\* a finite liquidity.
C6_SolverSignalsInvalidRange ==
    (/\ button
     /\ Bound(L)
     /\ \/ FLe(p_max, p_min)
        \/ FLe(p_min, Zero) \/ FLe(p_max, Zero) \/ FLe(current_price, Zero)
        \/ funding_mode = ModeX /\ FLe(XDenominator(current_price, p_min, p_max).val, Zero)
        \/ funding_mode = ModeY /\ FLe(YDenominator(current_price, p_min).val, Zero))
    => IsNaN(L)

\* C7: a zero HODL value is signalled as a division by zero.  Whenever
\* V_hodl = x_init + y_init / p_new is zero, the run's IL computation ends in
\* ZeroDivisionError.
C7_DivisionByZeroSignalled ==
    (/\ Valued
     /\ p_new # Zero
     /\ V_hodl_of(Const(x_init), Const(y_init), p_new) = Const(Zero))
    => exc = "ZeroDivisionError"

\* the entries the sweep is to return: the IL of every sample whose V_hodl is
\* not zero, in order
RECURSIVE IL_expected(_, _, _, _, _, _)
IL_expected(Lv, xi, yi, samples, pmin, pmax) ==
    IF samples = <<>> THEN <<>>
    ELSE LET pprime == Head(samples)
             rest == IL_expected(Lv, xi, yi, Tail(samples), pmin, pmax)
         IN  IF V_hodl_of(Const(xi), Const(yi), pprime) = Const(Zero)
             THEN rest
             ELSE <<IL_at(Lv, xi, yi, pprime, pmin, pmax).val>> \o rest

\* C8: the curve sweep.  Over the sample prices the sweep returns, in order,
\* the single-point IL of exactly the samples whose V_hodl is not zero.
C8_SweepOmitsZeroHodl ==
    (/\ Valued
     /\ FLt(Zero, p_initial))
    => /\ exc = "none"
       /\ IL_loop(L, x_init, y_init, p_vals(p_initial), p_min, p_max, <<>>)
            = Const(IL_expected(L, x_init, y_init, p_vals(p_initial), p_min, p_max))

\* C9: the valuation only reads a liquidity the solver produced.  No run
\* reaches the valuation step (line 285) with L undefined; in particular a
\* run triggered by changing only p_initial or p_new still has the L of the
\* last compute action.
C9_LDefinedAtValuation ==
    pc = "initial" => Bound(L)

====
